---- MODULE Spec2Model ----
(***************************************************************************)
(* Model of BilibiliLiveMonitor (src/main.py): the configuration parser,   *)
(* the polling loop monitor_task with its per-room status tracking, the    *)
(* anchor-name lookup, the per-room notification lists and the inbound     *)
(* group-message handler on_group_message that drains them.                *)
(*                                                                         *)
(* Scheduling is asyncio's: one task runs at a time and control changes    *)
(* hands only at an await or a yield.  Every action below is one segment   *)
(* of code between two such points; a handler segment may run only while   *)
(* monitor_task is suspended (in gather, in the anchor fetch, in sleep).   *)
(*                                                                         *)
(* Strings that the code splits or trims are sequences of one-character    *)
(* strings.  datetime values are integers (seconds); None is -1 and a      *)
(* key that a JSON object does not have is Missing.                        *)
(***************************************************************************)
EXTENDS Integers, Sequences, FiniteSets, TLC

\* ------------------------------------------------------------------ bounds
MaxCycles == 2
MaxConfigLen == 5

\* --------------------------------------------------------------- constants
None == -1
Missing == -2
LIVE == 1

\* ------------------------------------------------------- string primitives
\* str.split(sep): the pieces of s between the occurrences of sep.
RECURSIVE split(_, _)
split(s, sep) ==
    IF \A k \in 1..Len(s) : s[k] /= sep
    THEN <<s>>
    ELSE LET k == CHOOSE k \in 1..Len(s) :
                     s[k] = sep /\ \A m \in 1..(k - 1) : s[m] /= sep
         IN  <<SubSeq(s, 1, k - 1)>> \o split(SubSeq(s, k + 1, Len(s)), sep)

\* str.split(sep, 1) of a string that holds sep: the text before the first
\* sep, and everything after it.
split_once(s, sep) ==
    LET k == CHOOSE k \in 1..Len(s) :
                 s[k] = sep /\ \A m \in 1..(k - 1) : s[m] /= sep
    IN  <<SubSeq(s, 1, k - 1), SubSeq(s, k + 1, Len(s))>>

\* str.strip(): s without its leading and trailing blanks.
RECURSIVE strip(_)
strip(s) ==
    IF s = <<>> THEN s
    ELSE IF Head(s) = " " THEN strip(Tail(s))
    ELSE IF s[Len(s)] = " " THEN strip(SubSeq(s, 1, Len(s) - 1))
    ELSE s

\* ------------------------------------------------------ parse_room_configs
\* Faulty variant: a token without the separator ends the parsing.
RECURSIVE parse_tokens_stop_at_invalid(_)
parse_tokens_stop_at_invalid(configs) ==
    IF configs = <<>> THEN <<>>
    ELSE LET config == Head(configs)
         IN  IF \E k \in 1..Len(config) : config[k] = ":"
             THEN <<[room_id |-> strip(split_once(config, ":")[1]),
                     group_id |-> strip(split_once(config, ":")[2])]>>
                  \o parse_tokens_stop_at_invalid(Tail(configs))
             ELSE <<>>

\* Lines 40-49: the entries of the tokens that hold the separator.
RECURSIVE parse_tokens(_)
parse_tokens(configs) ==
    IF configs = <<>> THEN <<>>
    ELSE LET config == Head(configs)
             rest == parse_tokens(Tail(configs))
         IN  IF \E k \in 1..Len(config) : config[k] = ":"
             THEN <<[room_id |-> strip(split_once(config, ":")[1]),
                     group_id |-> strip(split_once(config, ":")[2])]>> \o rest
             ELSE rest

parse_room_configs(room_configs) == parse_tokens(split(room_configs, ","))

\* The configuration strings the model starts from:
\*   "7:a,7:b"       room 7 registered for two groups;
\*   "7:a,8:a"       rooms 7 and 8 sharing group a;
\*   "7:, 8:a ,x"    room 7 with an empty group, blanks to trim and a token
\*                   without the separator.
ConfigChoices ==
    { <<"7", ":", "a", ",", "7", ":", "b">>,
      <<"7", ":", "a", ",", "8", ":", "a">>,
      <<"7", ":", ",", " ", "8", ":", "a", " ", ",", "x">> }

\* Every configuration string of at most MaxConfigLen characters over the
\* characters that matter to the parser and two others.
ConfigAlphabet == {"7", "a", ":", ",", " "}
ConfigStrings == UNION { [1..n -> ConfigAlphabet] : n \in 0..MaxConfigLen }

AllRoomIds == { <<"7">>, <<"8">> }
GroupIds == { <<"a">>, <<"b">> }

\* ------------------------------------------------------------------- state
VARIABLES
    room_configs,    \* self.room_configs: the configuration string
    monitor_rooms,   \* self.monitor_rooms: the parsed registry, in order
    session,         \* self.session: the aiohttp session, "open" or "closed"
    room_status,     \* self.room_status: a dict, kept as the sequence of its
                     \* entries in insertion order (the order .items() yields)
    anchor_names,    \* self.anchor_names: room_id -> cached name, <<>> = absent
    pc,              \* where monitor_task stands
    responses,       \* what the status endpoint answered to each fetch of
                     \* the cycle; asyncio.gather's list is made from it
    i,               \* index of the for loop over results (1-based)
    cycle,           \* number of cycles started; also the clock of datetime.now()
    nseq,            \* history: number of notifications appended so far
    handler          \* one record per inbound-event handler: its position and
                     \* locals; value is what it has yielded to the host, and
                     \* seq the history number of that notification

mvars == <<room_configs, monitor_rooms, session, room_status, anchor_names, pc, responses, i,
          cycle, nseq>>
vars == <<room_configs, monitor_rooms, session, room_status, anchor_names, pc, responses, i,
          cycle, nseq, handler>>

\* --------------------------------------------------------------- room_status
has_room(rs, room_id) == \E k \in 1..Len(rs) : rs[k].room_id = room_id

index_of(rs, room_id) == CHOOSE k \in 1..Len(rs) : rs[k].room_id = room_id

\* Faulty variant: a room seen for the first time is taken to have been offline.
initial_room_info_offline(room_id) ==
    [room_id |-> room_id, last_status |-> 0, live_start_time |-> None,
     last_check_time |-> None, notifications |-> <<>>]

\* The value stored for a room seen for the first time (lines 106-110).  The
\* 'notifications' key is added later (line 146); an absent key and an empty
\* list are the same to every reader, and both are <<>> here.
initial_room_info(room_id) ==
    [room_id |-> room_id, last_status |-> None, live_start_time |-> None,
     last_check_time |-> None, notifications |-> <<>>]

\* Lines 105-110: if room_id not in self.room_status: self.room_status[room_id] = {...}
with_room(rs, room_id) ==
    IF has_room(rs, room_id) THEN rs ELSE Append(rs, initial_room_info(room_id))

get_room(rs, room_id) == rs[index_of(rs, room_id)]

put_room(rs, info) == [rs EXCEPT ![index_of(rs, info.room_id)] = info]

\* self.room_status.get(room_id, {}) with .get(key) on the result.
room_field(rs, room_id, key) ==
    IF has_room(rs, room_id) THEN get_room(rs, room_id)[key] ELSE None

\* datetime.fromtimestamp(epoch_seconds): datetimes are kept as the number of
\* seconds they stand for.
fromtimestamp(live_time) == live_time

\* ---------------------------------------------------------- HTTP responses
NoData == [live_status |-> Missing, live_time |-> Missing]

\* What the live-status endpoint can answer at time now: no answer at all
\* (timeout, network error), an envelope with a non-zero code, or an envelope
\* with code 0 whose data holds live_status and live_time, only live_status,
\* or neither.
StatusResponses(now) ==
    { [kind |-> "error", code |-> Missing, data |-> NoData],
      [kind |-> "json", code |-> 1,
       data |-> [live_status |-> LIVE, live_time |-> now]] }
    \cup { [kind |-> "json", code |-> 0, data |-> d] :
             d \in { NoData,
                     [live_status |-> 0, live_time |-> 0],
                     [live_status |-> LIVE, live_time |-> now],
                     [live_status |-> LIVE, live_time |-> Missing] } }

\* What a request through self.session can be answered: a request made on a
\* closed session raises (RuntimeError, "Session is closed"), and closing the
\* session closes the connections of the requests in flight.
FetchError == [kind |-> "error", code |-> Missing, data |-> NoData]

status_answers(s, now) ==
    IF s = "open" THEN StatusResponses(now) ELSE {FetchError}

NoneResult ==
    [none |-> TRUE, room_id |-> <<>>, data |-> NoData, timestamp |-> None]

\* Faulty variant: the envelope's code is not looked at.
check_live_status_any_code(room_id, resp, now) ==
    IF resp.kind = "json"
    THEN [none |-> FALSE, room_id |-> room_id, data |-> resp.data,
          timestamp |-> now]
    ELSE NoneResult

\* check_live_status (lines 68-82): the sample, or None.
check_live_status(room_id, resp, now) ==
    IF resp.kind = "json" /\ resp.code = 0
    THEN [none |-> FALSE, room_id |-> room_id, data |-> resp.data,
          timestamp |-> now]
    ELSE NoneResult

\* What the room-info endpoint can lead get_anchor_info to: a name, or a
\* failure (exception or non-zero code).
AnchorOutcomes == { <<"u1">>, <<>> }

\* get_anchor_info (lines 52-66): the name returned for an outcome; "zhubo"
\* stands for the two-character prefix of the fallback name (line 66).
anchor_answers(s) == IF s = "open" THEN AnchorOutcomes ELSE { <<>> }

anchor_result(room_id, outcome) ==
    IF outcome /= <<>> THEN outcome ELSE <<"zhubo">> \o room_id

\* get_anchor_info's effect on the cache (line 60): only a fetched name is stored.
anchor_cache(names, room_id, outcome) ==
    IF outcome /= <<>> THEN [names EXCEPT ![room_id] = outcome] ELSE names

\* ----------------------------------------------------------- notifications
live_message(anchor_name, room_id) == <<"live", anchor_name, room_id>>
end_message(anchor_name) == <<"end", anchor_name>>

\* Lines 137-141: the group of the first registry entry for the room; None
\* (no entry) is as falsy as the empty string and is <<>> too.
target_group(rooms, room_id) ==
    IF \E k \in 1..Len(rooms) : rooms[k].room_id = room_id
    THEN rooms[CHOOSE k \in 1..Len(rooms) :
                   /\ rooms[k].room_id = room_id
                   /\ \A m \in 1..(k - 1) : rooms[m].room_id /= room_id].group_id
    ELSE <<>>

\* Lines 143-150: the room's list after the transition; seq is the history
\* number of the notification, not part of the stored dict.
enqueue(notifications, group, message, seq) ==
    IF group /= <<>>
    THEN Append(notifications, [message |-> message, group_id |-> group, seq |-> seq])
    ELSE notifications

\* ------------------------------------------------------------ monitor_task
\* Faulty variant: no except clause, the exception ends monitor_task.
after_exception_ends_task == "ended"

\* Where control goes when a statement of the cycle raises: the except clause
\* of line 156 logs and falls through to the sleep of line 159.
after_exception == "sleep"

\* Lines 116-118, first check of a room: the baseline is recorded.
first_check(room_info, data) ==
    [room_info EXCEPT
        !.last_status = data.live_status,
        !.live_start_time =
            IF data.live_status = LIVE THEN fromtimestamp(data.live_time) ELSE @]

\* Faulty variant: line 134 is left out, the new status is never stored.
status_changed_not_stored(room_info, data, anchor_name, group, seq) ==
    [room_info EXCEPT
        !.live_start_time =
            IF data.live_status = LIVE THEN fromtimestamp(data.live_time) ELSE None,
        !.notifications =
            enqueue(@, group,
                    IF data.live_status = LIVE
                    THEN live_message(anchor_name, room_info.room_id)
                    ELSE end_message(anchor_name),
                    seq)]

\* Lines 127-134 and 143-150, a changed status: start time set or cleared,
\* status stored, notification appended for the target group.
status_changed(room_info, data, anchor_name, group, seq) ==
    [room_info EXCEPT
        !.live_start_time =
            IF data.live_status = LIVE THEN fromtimestamp(data.live_time) ELSE None,
        !.last_status = data.live_status,
        !.notifications =
            enqueue(@, group,
                    IF data.live_status = LIVE
                    THEN live_message(anchor_name, room_info.room_id)
                    ELSE end_message(anchor_name),
                    seq)]

\* Faulty variant: a live room's start time is restamped at every check.
checked_restamped(room_info, timestamp) ==
    [room_info EXCEPT !.last_check_time = timestamp,
                      !.live_start_time = IF @ /= None THEN timestamp ELSE @]

\* Line 154.
checked(room_info, timestamp) == [room_info EXCEPT !.last_check_time = timestamp]

\* Line 90: the list asyncio.gather returns, one check_live_status per
\* registry entry, each stamped with the time of the cycle.
results ==
    [k \in 1..Len(responses) |->
        check_live_status(monitor_rooms[k].room_id, responses[k], cycle)]

result == results[i]
room_id == result.room_id
data == result.data
current_status == data.live_status
room_info == get_room(with_room(room_status, room_id), room_id)

InLoop == pc = "process" /\ i <= Len(responses)

\* A statement of the for loop raises: control leaves the loop for line 156.
Raise ==
    /\ pc' = "except"
    /\ UNCHANGED <<room_configs, monitor_rooms, session, responses, i, cycle, handler>>

NextResult ==
    /\ pc' = "process"
    /\ i' = i + 1
    /\ UNCHANGED <<room_configs, monitor_rooms, session, responses, cycle, handler>>

\* Lines 86-90: a cycle starts; the fetches are created and gathered.
StartCycle ==
    /\ pc \in {"start", "sleep"}
    /\ cycle < MaxCycles
    /\ pc' = "gather"
    /\ cycle' = cycle + 1
    /\ UNCHANGED <<room_configs, monitor_rooms, session, room_status, anchor_names, responses, i, nseq,
                   handler>>

\* Line 90 returns: every check_live_status has answered or failed.
GatherDone ==
    /\ pc = "gather"
    /\ responses' \in [1..Len(monitor_rooms) -> status_answers(session, cycle)]
    /\ pc' = "process"
    /\ i' = 1
    /\ UNCHANGED <<room_configs, monitor_rooms, session, room_status, anchor_names, cycle, nseq, handler>>

\* Lines 93-98: a fetch that failed is skipped.
SkipResult ==
    /\ InLoop
    /\ result.none
    /\ NextResult
    /\ UNCHANGED <<room_status, anchor_names, nseq>>

\* Line 102: data['live_status'] of a payload without that key raises KeyError.
RaiseNoStatus ==
    /\ InLoop
    /\ ~result.none
    /\ current_status = Missing
    /\ Raise
    /\ UNCHANGED <<room_status, anchor_names, nseq>>

\* Lines 105-119 and 154: the first check of a room.  With live_status 1 and no
\* live_time, line 118 raises KeyError after line 116 has stored the status.
FirstCheck ==
    /\ InLoop
    /\ ~result.none
    /\ current_status /= Missing
    /\ room_info.last_status = None
    /\ IF current_status = LIVE /\ data.live_time = Missing
       THEN /\ room_status' = put_room(with_room(room_status, room_id),
                                       [room_info EXCEPT !.last_status = current_status])
            /\ Raise
       ELSE /\ room_status' = put_room(with_room(room_status, room_id),
                                       checked(first_check(room_info, data),
                                               result.timestamp))
            /\ NextResult
    /\ UNCHANGED <<anchor_names, nseq>>

\* Lines 112-122 and 154: the status is the stored one.
SameStatus ==
    /\ InLoop
    /\ ~result.none
    /\ current_status /= Missing
    /\ room_info.last_status /= None
    /\ current_status = room_info.last_status
    /\ room_status' = put_room(with_room(room_status, room_id),
                               checked(room_info, result.timestamp))
    /\ NextResult
    /\ UNCHANGED <<anchor_names, nseq>>

\* Faulty variant: line 134 stands before the await of line 124.
StatusChanged_stored_early ==
    /\ InLoop
    /\ ~result.none
    /\ current_status /= Missing
    /\ room_info.last_status /= None
    /\ current_status /= room_info.last_status
    /\ room_status' = put_room(with_room(room_status, room_id),
                               [room_info EXCEPT !.last_status = current_status])
    /\ pc' = "anchor"
    /\ UNCHANGED <<room_configs, monitor_rooms, session, anchor_names, responses, i,
                   cycle, nseq, handler>>

\* Lines 122-124: the status differs; monitor_task awaits get_anchor_info.
StatusChanged ==
    /\ InLoop
    /\ ~result.none
    /\ current_status /= Missing
    /\ room_info.last_status /= None
    /\ current_status /= room_info.last_status
    /\ room_status' = with_room(room_status, room_id)
    /\ pc' = "anchor"
    /\ UNCHANGED <<room_configs, monitor_rooms, session, anchor_names, responses, i, cycle, nseq, handler>>

\* Lines 124-154: get_anchor_info has answered.  With live_status 1 and no
\* live_time, line 128 raises KeyError before anything of the room is changed.
AnchorDone ==
    /\ pc = "anchor"
    /\ \E outcome \in anchor_answers(session) :
        /\ anchor_names' = anchor_cache(anchor_names, room_id, outcome)
        /\ IF current_status = LIVE /\ data.live_time = Missing
           THEN /\ Raise
                /\ UNCHANGED <<room_status, nseq>>
           ELSE LET group == target_group(monitor_rooms, room_id)
                IN  /\ room_status' =
                          put_room(room_status,
                                   checked(status_changed(room_info, data,
                                                          anchor_result(room_id, outcome),
                                                          group, nseq + 1),
                                           result.timestamp))
                    /\ nseq' = IF group /= <<>> THEN nseq + 1 ELSE nseq
                    /\ NextResult

\* Lines 156-157: the exception is logged; the rest of the results is dropped.
Except ==
    /\ pc = "except"
    /\ pc' = after_exception
    /\ responses' = <<>>
    /\ i' = 0
    /\ UNCHANGED <<room_configs, monitor_rooms, session, room_status, anchor_names, cycle, nseq, handler>>

\* The for loop is over: line 159, the cycle sleeps.
EndCycle ==
    /\ pc = "process"
    /\ i > Len(responses)
    /\ pc' = "sleep"
    /\ responses' = <<>>
    /\ i' = 0
    /\ UNCHANGED <<room_configs, monitor_rooms, session, room_status, anchor_names, cycle, nseq, handler>>

\* monitor_task is suspended: at the gather, in the anchor fetch, in the sleep,
\* or not yet started by the event loop.
Suspended == pc \in {"start", "gather", "anchor", "sleep"}

\* -------------------------------------------------------- on_group_message
\* The handlers that can be in flight at once.  They are interchangeable; a
\* message is given to the first one that is not running, so h2 runs only
\* while h1 is in flight.
Handlers == DOMAIN handler

Earlier(other, h) == other = "h1" /\ h = "h2"

\* The texts an inbound message can carry: chat, the command in mixed case
\* with a leading blank, and a text that only starts like the command.
Chat == <<"h", "i">>
Texts == { Chat, <<" ", "L", "i", "v", "e", "I", "n", "f", "o">>,
           <<"l", "i", "v", "e", "i", "n", "f", "o", "s">> }

liveinfo == <<"l", "i", "v", "e", "i", "n", "f", "o">>

\* str.lower(), on the letters the texts use.
lower_char(c) ==
    CASE c = "L" -> "l"
      [] c = "I" -> "i"
      [] OTHER -> c

lower(s) == [k \in 1..Len(s) |-> lower_char(s[k])]

\* Faulty variant: the notification is sent but stays in the list.
remove_nothing(list, x) == list

\* list.remove(x): the list without its first element equal to x.  The stored
\* dicts hold message and group_id; seq is history and takes no part.
RECURSIVE remove(_, _)
remove(list, x) ==
    IF list = <<>> THEN list
    ELSE IF Head(list).message = x.message /\ Head(list).group_id = x.group_id
    THEN Tail(list)
    ELSE <<Head(list)>> \o remove(Tail(list), x)

\* Faulty variant: line 202's test guards the append only; every notification of the
\* room is removed.
RECURSIVE drain_room_all(_, _, _, _)
drain_room_all(copy, list, sent, group_id) ==
    IF copy = <<>> THEN [list |-> list, sent |-> sent]
    ELSE drain_room_all(Tail(copy), remove(list, Head(copy)),
                        IF Head(copy).group_id = group_id
                        THEN Append(sent, Head(copy)) ELSE sent,
                        group_id)

\* Faulty variant: line 202's test is left out; every notification of the room
\* is sent and removed.
RECURSIVE drain_room_any_group(_, _, _, _)
drain_room_any_group(copy, list, sent, group_id) ==
    IF copy = <<>> THEN [list |-> list, sent |-> sent]
    ELSE drain_room_any_group(Tail(copy), remove(list, Head(copy)),
                              Append(sent, Head(copy)), group_id)

\* Lines 201-204 for one room: copy is room_info['notifications'][:], list the
\* list being emptied, sent what was appended to notifications_to_send.
RECURSIVE drain_room(_, _, _, _)
drain_room(copy, list, sent, group_id) ==
    IF copy = <<>> THEN [list |-> list, sent |-> sent]
    ELSE IF Head(copy).group_id = group_id
    THEN drain_room(Tail(copy), remove(list, Head(copy)),
                    Append(sent, Head(copy)), group_id)
    ELSE drain_room(Tail(copy), list, sent, group_id)

\* Lines 198-204: the rooms in the order of self.room_status.items().
RECURSIVE drain(_, _, _, _)
drain(rs, k, sent, group_id) ==
    IF k > Len(rs) THEN [room_status |-> rs, sent |-> sent]
    ELSE LET d == drain_room(rs[k].notifications, rs[k].notifications, sent, group_id)
         IN  drain([rs EXCEPT ![k].notifications = d.list], k + 1, d.sent, group_id)

\* The envelope of an answer, without the payload.
envelope(resp) == [kind |-> resp.kind, code |-> resp.code]

\* No request made yet.
NoResponse == [kind |-> "none", code |-> Missing]

\* A handler's locals; response is the envelope of what the status endpoint
\* answered to the request of its last get_live_info.
Idle == [pc |-> "idle", group_id |-> <<>>, message_str |-> <<>>,
         notifications_to_send |-> <<>>, value |-> <<>>, seq |-> 0,
         info_lines |-> <<>>, j |-> 0, response |-> NoResponse]

\* Faulty variant: line 214's test is left out, every registry entry is queried.
next_config_any_group(rooms, group_id, j) ==
    IF j + 1 <= Len(rooms) THEN j + 1 ELSE 0

\* The index of the next registry entry of a group after index j (line 214),
\* 0 when there is none.
next_config(rooms, group_id, j) ==
    IF \E k \in (j + 1)..Len(rooms) : rooms[k].group_id = group_id
    THEN CHOOSE k \in (j + 1)..Len(rooms) :
             /\ rooms[k].group_id = group_id
             /\ \A m \in (j + 1)..(k - 1) : rooms[m].group_id /= group_id
    ELSE 0

\* What get_live_info gives when a statement of it raises.
KeyError == <<"KeyError">>

\* Faulty variant: lines 164-165 are left out; result['data'] of None raises.
get_live_info_unchecked(rid, res, rs, names) ==
    IF res.none THEN KeyError
    ELSE IF res.data.live_status = Missing THEN KeyError
    ELSE <<"info",
           IF names[rid] /= <<>> THEN names[rid] ELSE <<"zhubo">> \o rid,
           rid,
           res.data.live_status = LIVE,
           IF res.data.live_status = LIVE
           THEN room_field(rs, rid, "live_start_time") ELSE None,
           room_field(rs, rid, "last_check_time")>>

\* get_live_info (lines 161-190) for a fetch result: the report, or the
\* KeyError of line 170 for a payload without live_status.  The elapsed time
\* of lines 176-180 is a function of the start time shown and is left out.
get_live_info(rid, res, rs, names) ==
    IF res.none THEN <<"unavailable", rid>>
    ELSE IF res.data.live_status = Missing THEN KeyError
    ELSE <<"info",
           IF names[rid] /= <<>> THEN names[rid] ELSE <<"zhubo">> \o rid,
           rid,
           res.data.live_status = LIVE,
           IF res.data.live_status = LIVE
           THEN room_field(rs, rid, "live_start_time") ELSE None,
           room_field(rs, rid, "last_check_time")>>

\* Faulty variant: line 211 tests whether the text starts with the command.
after_notifications_prefix(rooms, hr) ==
    IF ~(/\ Len(hr.message_str) >= Len(liveinfo)
         /\ SubSeq(hr.message_str, 1, Len(liveinfo)) = liveinfo) THEN Idle
    ELSE IF next_config(rooms, hr.group_id, 0) = 0
    THEN [hr EXCEPT !.pc = "reply", !.value = <<"no rooms">>]
    ELSE [hr EXCEPT !.pc = "info", !.value = <<>>,
                    !.j = next_config(rooms, hr.group_id, 0)]

\* Lines 211-222 up to the next await or yield: the handler ends when the text
\* is not the command, yields line 222's reply when the group has no room, and
\* else awaits the first get_live_info.
after_notifications(rooms, hr) ==
    IF hr.message_str /= liveinfo THEN Idle
    ELSE IF next_config(rooms, hr.group_id, 0) = 0
    THEN [hr EXCEPT !.pc = "reply", !.value = <<"no rooms">>]
    ELSE [hr EXCEPT !.pc = "info", !.value = <<>>,
                    !.j = next_config(rooms, hr.group_id, 0)]

\* Lines 207-208: the next buffered notification is yielded, or the loop is over.
send_next(rooms, hr) ==
    IF hr.notifications_to_send /= <<>>
    THEN [hr EXCEPT !.pc = "yield",
                    !.value = Head(hr.notifications_to_send).message,
                    !.seq = Head(hr.notifications_to_send).seq,
                    !.notifications_to_send = Tail(@)]
    ELSE after_notifications(rooms, [hr EXCEPT !.value = <<>>, !.seq = 0])

\* Lines 194-208: an inbound message arrives; the notifications of its group
\* are taken out of every room's list, and the handler runs on to its first
\* yield or await.
on_group_message(h, texts) ==
    /\ Suspended
    /\ handler[h].pc = "idle"
    /\ \A other \in Handlers : Earlier(other, h) => handler[other].pc /= "idle"
    /\ \E g \in GroupIds, text \in texts :
        LET d == drain(room_status, 1, <<>>, g)
        IN  /\ room_status' = d.room_status
            /\ handler' = [handler EXCEPT ![h] =
                  send_next(monitor_rooms,
                            [Idle EXCEPT !.group_id = g,
                                         !.message_str = lower(strip(text)),
                                         !.notifications_to_send = d.sent])]
    /\ UNCHANGED <<room_configs, monitor_rooms, session, anchor_names, pc, responses, i, cycle, nseq>>

Receive(h) == on_group_message(h, Texts)

\* An inbound message that is not the command.
ReceiveChat(h) == on_group_message(h, {Chat})

\* The host has taken the yielded notification and resumes the generator.
Resume(h) ==
    /\ Suspended
    /\ handler[h].pc = "yield"
    /\ handler' = [handler EXCEPT ![h] = send_next(monitor_rooms, @)]
    /\ UNCHANGED mvars

\* Faulty variant: get_live_info stores the status it has fetched as the room's
\* last_status.
Info_refreshing(h) ==
    /\ Suspended
    /\ handler[h].pc = "info"
    /\ \E resp \in status_answers(session, cycle) :
        LET rid == monitor_rooms[handler[h].j].room_id
            res == check_live_status(rid, resp, cycle)
            room_info_line == get_live_info(rid, res, room_status, anchor_names)
            lines == Append(handler[h].info_lines, room_info_line)
            next == next_config(monitor_rooms, handler[h].group_id, handler[h].j)
        IN  /\ handler' = [handler EXCEPT ![h] =
                  IF room_info_line = KeyError
                  THEN [@ EXCEPT !.pc = "raised", !.response = envelope(resp)]
                  ELSE IF next = 0
                  THEN [@ EXCEPT !.pc = "reply", !.info_lines = lines,
                                 !.value = <<"report", lines>>,
                                 !.response = envelope(resp)]
                  ELSE [@ EXCEPT !.info_lines = lines, !.j = next,
                                 !.response = envelope(resp)]]
            /\ room_status' =
                  IF ~res.none /\ res.data.live_status /= Missing
                     /\ has_room(room_status, rid)
                  THEN put_room(room_status,
                                [get_room(room_status, rid) EXCEPT
                                     !.last_status = res.data.live_status])
                  ELSE room_status
    /\ UNCHANGED <<room_configs, monitor_rooms, session, anchor_names, pc, responses,
                   i, cycle, nseq>>

\* Lines 213-220: one get_live_info has answered; after the last one the
\* report is yielded.  An exception of get_live_info is not caught: it leaves
\* the handler for the host.
Info(h) ==
    /\ Suspended
    /\ handler[h].pc = "info"
    /\ \E resp \in status_answers(session, cycle) :
        LET rid == monitor_rooms[handler[h].j].room_id
            res == check_live_status(rid, resp, cycle)
            room_info_line == get_live_info(rid, res, room_status, anchor_names)
            lines == Append(handler[h].info_lines, room_info_line)
            next == next_config(monitor_rooms, handler[h].group_id, handler[h].j)
        IN  handler' = [handler EXCEPT ![h] =
              IF room_info_line = KeyError
              THEN [@ EXCEPT !.pc = "raised", !.response = envelope(resp)]
              ELSE IF next = 0
              THEN [@ EXCEPT !.pc = "reply", !.info_lines = lines,
                             !.value = <<"report", lines>>, !.response = envelope(resp)]
              ELSE [@ EXCEPT !.info_lines = lines, !.j = next,
                             !.response = envelope(resp)]]
    /\ UNCHANGED mvars

\* The host has logged the exception that ended the handler.
Raised(h) ==
    /\ Suspended
    /\ handler[h].pc = "raised"
    /\ handler' = [handler EXCEPT ![h] = Idle]
    /\ UNCHANGED mvars

\* The host has taken the reply of line 220 or 222; the generator ends.
Return(h) ==
    /\ Suspended
    /\ handler[h].pc = "reply"
    /\ handler' = [handler EXCEPT ![h] = Idle]
    /\ UNCHANGED mvars

\* ---------------------------------------------------------------- terminate
\* terminate (lines 224-230): the host unloads the plugin; the session is
\* closed.  Nothing else is touched: the task made at line 34 is not kept and
\* not cancelled, and monitor_task reads no flag.
terminate ==
    /\ Suspended
    /\ session = "open"
    /\ session' = "closed"
    /\ UNCHANGED <<room_configs, monitor_rooms, room_status, anchor_names, pc, responses, i, cycle,
                   nseq, handler>>

\* ------------------------------------------------------------ specification
InitWith(configs, handlers) ==
    /\ room_configs \in configs
    /\ monitor_rooms = parse_room_configs(room_configs)
    /\ session = "open"
    /\ room_status = <<>>
    /\ anchor_names = [r \in AllRoomIds |-> <<>>]
    /\ pc = "start"
    /\ responses = <<>>
    /\ i = 0
    /\ cycle = 0
    /\ nseq = 0
    /\ handler = [h \in handlers |-> Idle]

Init == InitWith(ConfigChoices, {"h1"})

MonitorNext ==
    \/ StartCycle
    \/ GatherDone
    \/ SkipResult
    \/ RaiseNoStatus
    \/ FirstCheck
    \/ SameStatus
    \/ StatusChanged
    \/ AnchorDone
    \/ Except
    \/ EndCycle

Next ==
    \/ MonitorNext
    \/ \E h \in Handlers : Receive(h)
    \/ \E h \in Handlers : Resume(h)
    \/ \E h \in Handlers : Info(h)
    \/ \E h \in Handlers : Return(h)
    \/ \E h \in Handlers : Raised(h)

Spec == Init /\ [][Next]_vars

\* The registry "7:a,8:a,7:b": two rooms sharing group a, room 7 polled twice
\* in a cycle.
SharedConfig == <<"7", ":", "a", ",", "8", ":", "a", ",", "7", ":", "b">>

InitShared == InitWith({SharedConfig}, {"h1"})

SpecShared == InitShared /\ [][Next]_vars

\* The inbound messages are not the command: handlers only drain.
NextChat ==
    \/ MonitorNext
    \/ \E h \in Handlers : ReceiveChat(h)
    \/ \E h \in Handlers : Resume(h)

\* Two handlers in flight at once, draining.
InitTwo == InitWith(ConfigChoices, {"h1", "h2"})

SpecTwo == InitTwo /\ [][NextChat]_vars

\* monitor_task under the event loop's scheduling: a task whose await has
\* completed is resumed, and every await of monitor_task completes (the
\* fetches have timeouts, the sleep ends).
FairSpec == Init /\ [][NextChat]_vars /\ WF_vars(MonitorNext)

\* The host unloads the plugin at some point of the run.
NextStop ==
    \/ NextChat
    \/ terminate

SpecStop == Init /\ [][NextStop]_vars

\* The plugin is made from any short configuration string, its first cycle
\* starts, and it is unloaded.
InitParse == InitWith(ConfigStrings, {"h1"})

NextParse ==
    \/ StartCycle
    \/ terminate

SpecParse == InitParse /\ [][NextParse]_vars

\* The registry "7:a,8:b": two rooms, each with a group of its own.
SplitConfig == <<"7", ":", "a", ",", "8", ":", "b">>

InitSplit == InitWith({SplitConfig}, {"h1"})

SpecSplit == InitSplit /\ [][NextChat]_vars

\* ------------------------------------------------------------------ claims
last_status_of(rs, r) == room_field(rs, r, "last_status")

\* The three fields of a room's state, None each while the room has no entry.
RoomState(rs, r) ==
    <<room_field(rs, r, "last_status"), room_field(rs, r, "live_start_time"),
      room_field(rs, r, "last_check_time")>>

\* The history numbers of the notifications buffered in a room's list.
BufferedIn(rs, r) ==
    IF has_room(rs, r)
    THEN {get_room(rs, r).notifications[k].seq :
              k \in 1..Len(get_room(rs, r).notifications)}
    ELSE {}

Buffered(rs) == UNION {BufferedIn(rs, r) : r \in AllRoomIds}

\* A sample as the status endpoint documents it: code 0, live_status 0 or 1,
\* live_time present.
WellFormed(resp) ==
    /\ resp.kind = "json"
    /\ resp.code = 0
    /\ resp.data.live_status \in {0, LIVE}
    /\ resp.data.live_time /= Missing

\* The for loop stands at a well-formed sample: the transition branch is
\* entered if and only if a status is stored for the room and differs from
\* the sample's; otherwise the sample is done in this step.
C1_Sample ==
    (InLoop /\ WellFormed(responses[i])) =>
        IF /\ last_status_of(room_status, room_id) /= None
           /\ current_status /= last_status_of(room_status, room_id)
        THEN pc' = "anchor" /\ i' = i /\ room_status' = room_status
        ELSE /\ pc' = "process" /\ i' = i + 1
             /\ nseq' = nseq
             /\ Buffered(room_status') = Buffered(room_status)
             /\ last_status_of(room_status', room_id) = current_status

\* The transition branch is left: the notification has been built, and
\* appended when the room's first registry entry has a group.
C1_Transition ==
    (pc = "anchor" /\ pc' /= "anchor" /\ WellFormed(responses[i])) =>
        /\ pc' = "process" /\ i' = i + 1
        /\ last_status_of(room_status', room_id) = current_status
        /\ target_group(monitor_rooms, room_id) /= <<>> =>
              /\ nseq' = nseq + 1
              /\ BufferedIn(room_status', room_id) =
                     BufferedIn(room_status, room_id) \cup {nseq'}

\* C1: while monitor_task processes a well-formed sample of a room (status 0
\* or 1), the transition branch (lines 122-152, where the notification is
\* built) is taken if and only if a status is stored for the room and differs
\* from the sample's; when the sample is done the stored last_status is the
\* sample's status, and without a transition nothing is appended to any list.
C1_TransitionIffChanged == [][C1_Sample /\ C1_Transition]_vars

\* C1 witness: a transition has just been processed and its notification sits
\* in the room's list.
C1_Witness ==
    /\ pc = "process"
    /\ i > 1
    /\ \E k \in 1..Len(room_status) :
          /\ room_status[k].room_id = results[i - 1].room_id
          /\ room_status[k].notifications /= <<>>
          /\ room_status[k].last_check_time = cycle
          /\ room_status[k].last_status = results[i - 1].data.live_status
          /\ nseq \in BufferedIn(room_status, room_status[k].room_id)

\* C2: the first sample of a room (no entry for it yet) never enters the
\* transition branch and appends no notification, whatever its status; it
\* stores the status as the baseline.
C2_FirstSampleSilent ==
    [][(/\ InLoop
        /\ ~result.none
        /\ current_status /= Missing
        /\ ~has_room(room_status, room_id)) =>
           /\ pc' /= "anchor"
           /\ nseq' = nseq
           /\ Buffered(room_status') = Buffered(room_status)
           /\ has_room(room_status', room_id)
           /\ get_room(room_status', room_id).notifications = <<>>
           /\ last_status_of(room_status', room_id) = current_status]_vars

\* C2 witness: two rooms have their baseline, one live and one offline, and
\* nothing was ever appended.
C2_Witness ==
    /\ Len(room_status) = 2
    /\ room_status[1].last_status = LIVE
    /\ room_status[2].last_status = 0
    /\ room_status[2].last_check_time /= None
    /\ nseq = 0

\* C3 (as claimed): in every state each room has live_start_time set if and
\* only if its last_status is live.
C3_StartTimeIffLive ==
    \A k \in 1..Len(room_status) :
        (room_status[k].live_start_time /= None) <=> (room_status[k].last_status = LIVE)

\* A fetch that failed: no answer (timeout, network error) or a non-zero code.
FetchFailed(k) == ~(responses[k].kind = "json" /\ responses[k].code = 0)

\* The room was fetched in the current cycle and every fetch of it failed.
FailedRoom(r) ==
    /\ \E k \in 1..Len(responses) : monitor_rooms[k].room_id = r
    /\ \A k \in 1..Len(responses) : monitor_rooms[k].room_id = r => FetchFailed(k)

Unchanged(r) ==
    /\ RoomState(room_status', r) = RoomState(room_status, r)
    /\ BufferedIn(room_status', r) \subseteq BufferedIn(room_status, r)

\* C4: from the start of a cycle to its end no step changes last_status,
\* live_start_time or last_check_time of a room whose fetch failed in that
\* cycle, and none appends a notification to its list: while the results are
\* being gathered and while monitor_task sleeps no room changes at all, and
\* while they are being processed the rooms whose fetch failed do not.
C4_FailedFetchRetainsState ==
    [][/\ pc \in {"process", "anchor", "except"} =>
              \A r \in AllRoomIds : FailedRoom(r) => Unchanged(r)
       /\ pc \in {"start", "gather", "sleep"} =>
              \A r \in AllRoomIds : Unchanged(r)]_vars

\* C4 witness: the second cycle is over, and a room whose fetch failed in it
\* still shows the state of the first cycle.
C4_Witness ==
    /\ pc = "process"
    /\ i > Len(responses)
    /\ cycle = 2
    /\ \E r \in AllRoomIds :
          /\ FailedRoom(r)
          /\ RoomState(room_status, r) = <<LIVE, 1, 1>>

\* C5 (as claimed): when a transition has been processed, every registry
\* entry of the room with a group has a new notification for its group in
\* the room's list.
C5_AllMatchingGroups ==
    [][(pc = "anchor" /\ pc' = "process") =>
          \A k \in 1..Len(monitor_rooms) :
              (monitor_rooms[k].room_id = room_id /\ monitor_rooms[k].group_id /= <<>>) =>
                  \E n \in 1..Len(get_room(room_status', room_id).notifications) :
                      /\ get_room(room_status', room_id).notifications[n].seq > nseq
                      /\ get_room(room_status', room_id).notifications[n].group_id =
                             monitor_rooms[k].group_id]_vars

\* C6 (as claimed): a handler yields the notifications of its group in the
\* order they were appended: the one it has yielded was appended before all
\* those it has still to yield, and these are in order themselves.
C6_FifoPerGroup ==
    \A h \in Handlers :
        LET rest == handler[h].notifications_to_send
        IN  /\ handler[h].pc = "yield" =>
                  \A n \in 1..Len(rest) : handler[h].seq < rest[n].seq
            /\ \A m, n \in 1..Len(rest) : m < n => rest[m].seq < rest[n].seq

\* The history numbers of the notifications of a group buffered in any list.
Pending(rs, g) ==
    UNION { {rs[k].notifications[n].seq :
                 n \in {m \in 1..Len(rs[k].notifications) :
                            rs[k].notifications[m].group_id = g}} :
            k \in 1..Len(rs) }

\* The history numbers of the notifications a handler has taken and not yet
\* handed over for good.
Held(hr) ==
    {hr.notifications_to_send[n].seq : n \in 1..Len(hr.notifications_to_send)}
    \cup (IF hr.pc = "yield" THEN {hr.seq} ELSE {})

\* A step in which handler h has taken an inbound message and gone on to a
\* yield or an await.
Drains(h) == handler[h].pc = "idle" /\ handler'[h].pc /= "idle"

\* C7: the handling of an inbound message of group g takes every notification
\* buffered for g and leaves none of them in any list, so that the next one
\* finds nothing unless a transition has appended in between: only the end of
\* a transition adds to what is buffered for a group.
C7_DrainTakesAll ==
    [][/\ \A h \in Handlers :
              Drains(h) =>
                  /\ Held(handler'[h]) = Pending(room_status, handler'[h].group_id)
                  /\ Pending(room_status', handler'[h].group_id) = {}
                  /\ Pending(room_status, handler'[h].group_id) = {}
                         => handler'[h].pc /= "yield"
       /\ \A g \in GroupIds :
              ~(Pending(room_status', g) \subseteq Pending(room_status, g))
                  => pc = "anchor" /\ pc' = "process"]_vars

\* C7 witness: a handler has taken two notifications at once and none is left
\* for its group.
C7_Witness ==
    \E h \in Handlers :
        /\ handler[h].pc = "yield"
        /\ handler[h].notifications_to_send /= <<>>
        /\ Pending(room_status, handler[h].group_id) = {}

\* No notification is in two places: the lists and the handlers hold each
\* history number at most once.
NoDuplicate(rs, hs) ==
    /\ \A k \in 1..Len(rs) : \A m, n \in 1..Len(rs[k].notifications) :
           m /= n => rs[k].notifications[m].seq /= rs[k].notifications[n].seq
    /\ \A k, l \in 1..Len(rs) :
           k /= l => BufferedIn(rs, rs[k].room_id) \cap BufferedIn(rs, rs[l].room_id) = {}
    /\ \A h \in DOMAIN hs :
           /\ Held(hs[h]) \cap Buffered(rs) = {}
           /\ \A m, n \in 1..Len(hs[h].notifications_to_send) :
                  m /= n => hs[h].notifications_to_send[m].seq
                                /= hs[h].notifications_to_send[n].seq
           /\ hs[h].pc = "yield" =>
                  \A n \in 1..Len(hs[h].notifications_to_send) :
                      hs[h].seq /= hs[h].notifications_to_send[n].seq
           /\ \A g \in DOMAIN hs : g /= h => Held(hs[h]) \cap Held(hs[g]) = {}

\* C8: with two handlers and monitor_task interleaved at their awaits and
\* yields, a notification leaves the lists only in the step in which one
\* handler takes it, a handler holds only what it took from the lists in
\* that step, it hands over one notification per yield, what enters the
\* lists is new, and no notification is ever in two places.
C8_NoLossNoDuplicate ==
    [][/\ NoDuplicate(room_status', handler')
       /\ \A s \in Buffered(room_status) \ Buffered(room_status') :
              \E h \in Handlers : Drains(h) /\ s \in Held(handler'[h])
       /\ \A s \in Buffered(room_status') \ Buffered(room_status) :
              s = nseq + 1 /\ nseq' = nseq + 1
       /\ \A h \in Handlers :
              /\ Held(handler'[h]) \ Held(handler[h]) \subseteq Buffered(room_status)
              /\ Held(handler[h]) \ Held(handler'[h]) \subseteq {handler[h].seq}]_vars

\* C8 witness: both handlers are in flight, each with a notification it took
\* in its own drain, while monitor_task awaits the anchor name of a further
\* transition.
C8_Witness ==
    /\ pc = "anchor"
    /\ handler["h1"].pc = "yield"
    /\ handler["h2"].pc = "yield"
    /\ handler["h1"].seq /= handler["h2"].seq

\* C9 (as claimed): when an exception ends the for loop, no later result of
\* the cycle is a well-formed sample left unprocessed.
C9_FailureIsolated ==
    pc = "except" => \A k \in (i + 1)..Len(responses) : ~WellFormed(responses[k])

\* C10: an exception raised while the results are processed does not end
\* monitor_task: whenever results are being processed the task gets to its
\* sleep, and from the sleep it starts the next cycle (as long as the model
\* lets cycles start).
C10_LoopContinues ==
    /\ (pc \in {"process", "anchor", "except"}) ~> (pc = "sleep")
    /\ (pc = "sleep" /\ cycle < MaxCycles) ~> (pc = "gather")

\* C10 witness: a cycle is being gathered after a cycle that raised (a room
\* live without start time is what line 118's KeyError leaves behind).
C10_Witness ==
    /\ pc = "gather"
    /\ cycle = 2
    /\ \E k \in 1..Len(room_status) :
          room_status[k].last_status = LIVE /\ room_status[k].live_start_time = None

\* C11 (as claimed): once terminate has been called, monitor_task starts no
\* further poll cycle.
C11_StopHonoured == [][session = "closed" => cycle' = cycle]_vars

\* C12 (as claimed): get_anchor_info is memoized.  A transition awaits the
\* anchor fetch only while the cache has no name for the room; when the
\* resolve has returned, the cache holds a name for the room (the fetched one
\* or the fallback); and a resolve of a room whose name is cached returns the
\* cached name, which is the name in the notification.
C12_AnchorMemoized ==
    [][/\ (pc = "process" /\ pc' = "anchor") => anchor_names[room_id] = <<>>
       /\ (pc = "anchor" /\ pc' = "process") =>
              /\ anchor_names'[room_id] /= <<>>
              /\ (anchor_names[room_id] /= <<>> /\ nseq' /= nseq) =>
                     LET list == get_room(room_status', room_id).notifications
                     IN  list[Len(list)].message[2] = anchor_names[room_id]]_vars

\* C13: a handler whose message text, trimmed and lowered, is not "liveinfo"
\* only ever yields notifications: it is in flight only when the lists held
\* notifications of its group, what it took is exactly what was buffered for
\* the group, it yields nothing but what it took, it never awaits a snapshot
\* and never yields a reply, and after its last notification it ends.
C13_OtherTextOnlyDrains ==
    [][\A h \in Handlers :
          (handler'[h].pc /= "idle" /\ handler'[h].message_str /= liveinfo) =>
              /\ handler'[h].pc = "yield"
              /\ Drains(h) =>
                     /\ Held(handler'[h]) = Pending(room_status, handler'[h].group_id)
                     /\ Held(handler'[h]) /= {}
              /\ ~Drains(h) =>
                     /\ Held(handler'[h]) \subseteq Held(handler[h])
                     /\ handler'[h].message_str = handler[h].message_str
                     /\ handler'[h].group_id = handler[h].group_id]_vars

\* C13 witness: a message that only starts like the command, from a group
\* that has rooms configured, has made its handler yield two notifications.
C13_Witness ==
    \E h \in Handlers :
        /\ handler[h].pc = "yield"
        /\ Len(handler[h].message_str) > Len(liveinfo)
        /\ next_config(monitor_rooms, handler[h].group_id, 0) /= 0
        /\ handler[h].notifications_to_send /= <<>>

\* The room a line of the report is about.
LineRoom(line) == IF line[1] = "unavailable" THEN line[2] ELSE line[3]

\* The room ids of the first n registry entries that have group g, in
\* registry order.
RECURSIVE GroupRooms(_, _, _)
GroupRooms(rooms, g, n) ==
    IF n = 0 THEN <<>>
    ELSE IF rooms[n].group_id = g
    THEN Append(GroupRooms(rooms, g, n - 1), rooms[n].room_id)
    ELSE GroupRooms(rooms, g, n - 1)

\* C14: a handler awaits get_live_info only for "liveinfo", only for a
\* registry entry of the sending group, and with one line collected for each
\* earlier entry of that group, in registry order; the report it yields
\* holds one line for each entry of the group, in registry order, and
\* nothing else; a group without entries gets the reply of line 222.
C14_LiveinfoReportsGroupRooms ==
    \A h \in Handlers :
        LET hr == handler[h]
            got == [k \in 1..Len(hr.info_lines) |-> LineRoom(hr.info_lines[k])]
        IN  /\ hr.pc \in {"info", "reply", "raised"} => hr.message_str = liveinfo
            /\ hr.pc = "info" =>
                   /\ hr.j \in 1..Len(monitor_rooms)
                   /\ monitor_rooms[hr.j].group_id = hr.group_id
                   /\ got = GroupRooms(monitor_rooms, hr.group_id, hr.j - 1)
            /\ hr.pc = "reply" =>
                   IF GroupRooms(monitor_rooms, hr.group_id, Len(monitor_rooms)) = <<>>
                   THEN hr.value = <<"no rooms">>
                   ELSE /\ hr.value = <<"report", hr.info_lines>>
                        /\ got = GroupRooms(monitor_rooms, hr.group_id,
                                            Len(monitor_rooms))

\* C14 witness: the report for a group with two registry entries is yielded,
\* a full line for room 7 first and the line of a failed fetch for room 8.
C14_Witness ==
    \E h \in Handlers :
        /\ handler[h].pc = "reply"
        /\ Len(handler[h].info_lines) = 2
        /\ handler[h].info_lines[1][1] = "info"
        /\ handler[h].info_lines[1][3] = <<"7">>
        /\ handler[h].info_lines[2] = <<"unavailable", <<"8">> >>

\* The answer to a handler's last status request was a failure: no answer
\* (timeout, network error, closed session) or a non-zero code.
SnapshotFetchFailed(hr) ==
    /\ hr.response.kind /= "none"
    /\ ~(hr.response.kind = "json" /\ hr.response.code = 0)

TokenStarts(str) == {1} \cup {k + 1 : k \in {m \in 1..Len(str) : str[m] = ","}}

\* The place after the last character of the token that starts at p.
TokenEnd(str, p) ==
    IF \E k \in p..Len(str) : str[k] = ","
    THEN CHOOSE k \in p..Len(str) :
             str[k] = "," /\ \A m \in p..(k - 1) : str[m] /= ","
    ELSE Len(str) + 1

\* The starts of the tokens that hold the separator.
ValidStarts(str) ==
    {p \in TokenStarts(str) : \E k \in p..(TokenEnd(str, p) - 1) : str[k] = ":"}

\* The characters of str from place a up to, but without, place b, without
\* the blanks at both ends.
Trimmed(str, a, b) ==
    LET inked == {k \in a..(b - 1) : str[k] /= " "}
    IN  IF inked = {} THEN <<>>
        ELSE SubSeq(str, CHOOSE k \in inked : \A m \in inked : k <= m,
                         CHOOSE k \in inked : \A m \in inked : k >= m)

\* C16: the registry has one entry for each comma-separated token of the
\* configuration string that holds ':', in the order of the tokens; the
\* entry's room_id is the token's text before its first ':' and its group_id
\* the text after it, both without the blanks at their ends.  Tokens without
\* ':' leave no entry and change no other entry.
C16_ParseRoomConfigs ==
    /\ Len(monitor_rooms) = Cardinality(ValidStarts(room_configs))
    /\ \A p \in ValidStarts(room_configs) :
           LET n == Cardinality({q \in ValidStarts(room_configs) : q <= p})
               e == TokenEnd(room_configs, p)
               c == CHOOSE k \in p..(e - 1) :
                        /\ room_configs[k] = ":"
                        /\ \A m \in p..(k - 1) : room_configs[m] /= ":"
           IN  /\ monitor_rooms[n].room_id = Trimmed(room_configs, p, c)
               /\ monitor_rooms[n].group_id = Trimmed(room_configs, c + 1, e)

\* C16 witness: a string of three tokens, the middle one without ':', has
\* been parsed into two entries.
C16_Witness ==
    /\ Len(split(room_configs, ",")) = 3
    /\ Len(monitor_rooms) = 2
    /\ 2 \notin ValidStarts(room_configs)
    /\ 1 \in ValidStarts(room_configs)
    /\ pc = "gather"

\* C17: when monitor_task processes a sample of a room that has an entry and
\* the sample's status is the stored last_status, the step changes nothing
\* but that room's last_check_time, which becomes the sample's timestamp:
\* last_status, live_start_time and the notification list of the room, every
\* other room, the name cache and the number of notifications stay as they
\* were.
C17_SameStatusOnlyChecked ==
    [][(/\ InLoop
        /\ ~result.none
        /\ has_room(room_status, room_id)
        /\ current_status = last_status_of(room_status, room_id)) =>
           /\ pc' = "process" /\ i' = i + 1
           /\ nseq' = nseq
           /\ anchor_names' = anchor_names
           /\ Len(room_status') = Len(room_status)
           /\ \A k \in 1..Len(room_status) :
                  IF room_status[k].room_id = room_id
                  THEN /\ room_status'[k].room_id = room_id
                       /\ room_status'[k].last_status = room_status[k].last_status
                       /\ room_status'[k].live_start_time = room_status[k].live_start_time
                       /\ room_status'[k].notifications = room_status[k].notifications
                       /\ room_status'[k].last_check_time = result.timestamp
                  ELSE room_status'[k] = room_status[k]]_vars

\* C17 witness: a room that was live at its first check in cycle 1 has been
\* checked in cycle 2 and still shows the start time of cycle 1.
C17_Witness ==
    \E k \in 1..Len(room_status) :
        /\ room_status[k].last_status = LIVE
        /\ room_status[k].live_start_time = 1
        /\ room_status[k].last_check_time = 2

\* The notifications of a list that are not for group g, in their order.
RECURSIVE OtherGroups(_, _)
OtherGroups(list, g) ==
    IF list = <<>> THEN <<>>
    ELSE IF Head(list).group_id = g THEN OtherGroups(Tail(list), g)
    ELSE <<Head(list)>> \o OtherGroups(Tail(list), g)

\* The history numbers of the notifications of group g among those a handler
\* has still to yield.
ToSendFor(hr, g) ==
    {hr.notifications_to_send[n].seq :
         n \in {m \in 1..Len(hr.notifications_to_send) :
                    hr.notifications_to_send[m].group_id = g}}

\* C18: a handler yields only notifications whose group_id is the group of
\* its inbound message: what it takes from the lists and what it yields is of
\* its group, and the step that takes them leaves the notifications of every
\* other group where they were, in every room's list; no handler step but that
\* one changes a list.
C18_DrainOnlyOwnGroup ==
    [][/\ (pc' = pc /\ i' = i /\ room_status' /= room_status) =>
              \E h \in Handlers : Drains(h)
       /\ \A h \in Handlers :
          /\ \A n \in 1..Len(handler'[h].notifications_to_send) :
                 handler'[h].notifications_to_send[n].group_id = handler'[h].group_id
          /\ (handler'[h].pc = "yield" /\ handler'[h] /= handler[h]) =>
                 handler'[h].seq \in
                     IF Drains(h)
                     THEN Pending(room_status, handler'[h].group_id)
                     ELSE ToSendFor(handler[h], handler'[h].group_id)
          /\ Drains(h) =>
                 /\ Len(room_status') = Len(room_status)
                 /\ \A k \in 1..Len(room_status) :
                        OtherGroups(room_status'[k].notifications, handler'[h].group_id)
                            = OtherGroups(room_status[k].notifications,
                                          handler'[h].group_id)
          /\ (handler'[h] /= handler[h] /\ ~Drains(h)) => room_status' = room_status]_vars


\* C18 witness: a handler of a message from group b yields the notification
\* of room 8 while the notification of room 7, for group a, stays buffered.
C18_Witness ==
    \E h \in Handlers :
        /\ handler[h].pc = "yield"
        /\ handler[h].group_id = <<"b">>
        /\ Pending(room_status, <<"a">>) /= {}
        /\ Pending(room_status, <<"b">>) = {}

\* C19: the step in which a get_live_info of a handler answers, whatever the
\* answer, changes no room's entry (status, start time, check time, list),
\* not the name cache, not the number of notifications and nothing of
\* monitor_task: what the next cycle does with a sample is what it would
\* have done without the snapshot.
C19_SnapshotReadOnly ==
    [][\A h \in Handlers :
          (handler[h].pc = "info" /\ handler'[h] /= handler[h]) =>
              /\ room_status' = room_status
              /\ anchor_names' = anchor_names
              /\ nseq' = nseq
              /\ <<pc, responses, i, cycle>>' = <<pc, responses, i, cycle>>]_vars

\* C19 witness: a report made in cycle 1 shows room 7 live while its stored
\* status was offline; the report is still waiting to be taken when cycle 2
\* has recorded the transition and buffered its notification.
C19_Witness ==
    \E h \in Handlers :
        /\ handler[h].pc = "reply"
        /\ handler[h].info_lines /= <<>>
        /\ LET line == handler[h].info_lines[1]
           IN  /\ line[1] = "info"
               /\ line[4] = TRUE
               /\ line[5] = None
               /\ line[6] = 1
               /\ cycle = 2
               /\ RoomState(room_status, line[3]) = <<LIVE, 2, 2>>
               /\ BufferedIn(room_status, line[3]) /= {}

\* The step records a status change of room r: a stored status is replaced
\* by a different one.
StatusChangeRecorded(r) ==
    /\ last_status_of(room_status, r) /= None
    /\ last_status_of(room_status', r) /= last_status_of(room_status, r)

\* The step appends a notification to the list of room r.
NotificationEnqueued(r) ==
    /\ nseq' = nseq + 1
    /\ nseq' \in BufferedIn(room_status', r)

\* C20: between two points at which a handler can run, a status change of a
\* room whose first registry entry has a group is recorded if and only if a
\* notification is appended to the room's list, so that at each such point
\* as many notifications have been appended for the room as status changes
\* recorded; and while monitor_task awaits the anchor name nothing of the
\* transition has been written yet.
C20_TransitionAtomic ==
    [][/\ \A r \in AllRoomIds :
              target_group(monitor_rooms, r) /= <<>> =>
                  (StatusChangeRecorded(r) <=> NotificationEnqueued(r))
       /\ pc' = "anchor" => room_status' = room_status \/ pc = "anchor"
       /\ nseq' /= nseq => pc = "anchor" /\ pc' = "process"]_vars

\* C20 witness: monitor_task awaits the anchor name of a second transition
\* of a room, not yet written, while a handler is yielding the notification
\* of the first.
C20_Witness ==
    /\ pc = "anchor"
    /\ target_group(monitor_rooms, room_id) /= <<>>
    /\ last_status_of(room_status, room_id) /= current_status
    /\ \E h \in Handlers :
          /\ handler[h].pc = "yield"
          /\ handler[h].value[1] = "live"
          /\ handler[h].value[3] = room_id
====
